---- MODULE Spec2Model ----
(***************************************************************************)
(* Model of the match scraper's core: the extraction engine of             *)
(* app/extract_matches.py and the relational persistence layer of          *)
(* db/database.py (SQLite: tables leagues, teams, matches).                *)
(*                                                                         *)
(* Value conventions.  Python None / SQL NULL of a text value is NULL, of  *)
(* a row id is NoId, of an integer is None (an integer n is Some(n)).      *)
(* A text the extraction takes apart (stage, score cell, id attribute) is  *)
(* a sequence of tokens, << >> the empty text and NoText the absent one.   *)
(***************************************************************************)
EXTENDS Integers, Sequences, FiniteSets, TLC

NULL == "NULL"
NoText == <<NULL>>
NoId == 0
None == << >>
Some(n) == <<n>>

(* bounds of the model *)
MaxLeagues == 2
MaxClock == 1
MaxCalls == 3
MaxBatch == 2
MaxStageLen == 2
MaxScoreLen == 2
MaxNodes == 4
MaxTimeLen == 5
MaxLeagueNodes == 5
MaxChain == 11

VARIABLES
    leagues,     \* table leagues: row i has id i (AUTOINCREMENT, nothing is deleted)
    teams,       \* table teams
    matches,     \* table matches
    now,         \* the store's clock, CURRENT_TIMESTAMP, in whole seconds
    call,        \* the last call of the persistence layer and what it returned
    ncalls,      \* how many calls of the persistence layer have been made
    batch,       \* the batch last handed to save_matches_to_database
    after1,      \* the tables as the first run over that batch left them
    row,         \* the match row element handed to extract_match_data
    rec,         \* what extract_match_data returned for it
    doc,         \* the parsed document handed to extract_all_matches_from_html
    out,         \* the list extract_all_matches_from_html returned
    conns,       \* the connections of concurrent writers: where each stands in its upsert
    txn          \* the open write transaction: who holds the write lock, its uncommitted
                 \* tables, and the tables the writers found when they began

vars == <<leagues, teams, matches, now, call, ncalls, batch, after1, row, rec, doc, out,
          conns, txn>>

(***************************************************************************)
(* Python truthiness of an optional text value: None and '' are falsy.     *)
(***************************************************************************)
Truthy(s) == s # NULL /\ s # ""

(***************************************************************************)
(* SQL '=' in a WHERE clause: a comparison with NULL is never true.        *)
(***************************************************************************)
SqlEq(a, b) == a # NULL /\ b # NULL /\ a = b

(* dict.get(key, default) *)
Get(d, k, default) == IF k \in DOMAIN d THEN d[k] ELSE default

Min(S) == CHOOSE x \in S : \A y \in S : x <= y

Store(l, t, m) == [leagues |-> l, teams |-> t, matches |-> m]

(***************************************************************************)
(* get_or_create_league(cursor, name, country, flag_class, logo_url).      *)
(* Returns the store as the cursor leaves it and the id.                   *)
(***************************************************************************)
LeagueLookup(st, name, country) ==
    { i \in 1..Len(st.leagues) :
        SqlEq(st.leagues[i].name, name) /\ SqlEq(st.leagues[i].country, country) }

(* a resolver that hands out the id of a new league without storing its row *)
get_or_create_league_unstored(st, name, country, flag_class, logo_url) ==
    IF ~Truthy(name) THEN [st |-> st, id |-> NoId]
    ELSE LET found == LeagueLookup(st, name, country) IN
         IF found # {} THEN [st |-> st, id |-> Min(found)]
         ELSE [st |-> st, id |-> Len(st.leagues) + 1]

get_or_create_league(st, name, country, flag_class, logo_url) ==
    IF ~Truthy(name) THEN [st |-> st, id |-> NoId]
    ELSE LET found == LeagueLookup(st, name, country) IN
         IF found # {}
         THEN LET id == Min(found) IN
              IF Truthy(logo_url) /\ st.leagues[id].logo_url # logo_url
              THEN [st |-> [st EXCEPT !.leagues[id].logo_url = logo_url], id |-> id]
              ELSE [st |-> st, id |-> id]
         ELSE [st |-> [st EXCEPT !.leagues = Append(@,
                          [name |-> name, country |-> country,
                           flag_class |-> flag_class, logo_url |-> logo_url])],
               id |-> Len(st.leagues) + 1]

(***************************************************************************)
(* get_or_create_team(cursor, name, logo_url)                              *)
(***************************************************************************)
TeamLookup(st, name) ==
    { i \in 1..Len(st.teams) : SqlEq(st.teams[i].name, name) }

(* a resolver that takes the empty name for a name *)
get_or_create_team_empty_name(st, name, logo_url) ==
    IF name = NULL THEN [st |-> st, id |-> NoId]
    ELSE LET found == TeamLookup(st, name) IN
         IF found # {}
         THEN [st |-> st, id |-> Min(found)]
         ELSE [st |-> [st EXCEPT !.teams = Append(@, [name |-> name, logo_url |-> logo_url])],
               id |-> Len(st.teams) + 1]

get_or_create_team(st, name, logo_url) ==
    IF ~Truthy(name) THEN [st |-> st, id |-> NoId]
    ELSE LET found == TeamLookup(st, name) IN
         IF found # {}
         THEN LET id == Min(found) IN
              IF Truthy(logo_url) /\ st.teams[id].logo_url # logo_url
              THEN [st |-> [st EXCEPT !.teams[id].logo_url = logo_url], id |-> id]
              ELSE [st |-> st, id |-> id]
         ELSE [st |-> [st EXCEPT !.teams = Append(@,
                          [name |-> name, logo_url |-> logo_url])],
               id |-> Len(st.teams) + 1]

(***************************************************************************)
(* datetime.fromisoformat(s).date().isoformat(), None on ValueError.       *)
(* An instant is written <date>T<time>; the texts the model uses are       *)
(* listed here with their date component.                                  *)
(***************************************************************************)
IsoInstants == {"2026-11-06T15:30:00", "2026-11-07T09:00:00"}

fromisoformat_date(s) ==
    CASE s = "2026-11-06T15:30:00" -> "2026-11-06"
      [] s = "2026-11-07T09:00:00" -> "2026-11-07"
      [] OTHER -> NULL

(* a match_date that does not follow scheduled_datetime *)
match_date_of_today(scheduled_dt) == "2026-11-06"

match_date_of(scheduled_dt) ==
    IF Truthy(scheduled_dt) THEN fromisoformat_date(scheduled_dt) ELSE NULL

(***************************************************************************)
(* The columns of matches that both the UPDATE and the INSERT bind from    *)
(* match_data.get(...), with the default the code passes to get.           *)
(***************************************************************************)
(* the lookup by match_id left out: every record is taken as new *)
SelectMatchNothing(st, match_id) == {}

(* SELECT id FROM matches WHERE match_id = ? *)
SelectMatch(st, match_id) ==
    { i \in 1..Len(st.matches) : SqlEq(st.matches[i].match_id, match_id) }

BoundColumns(r, league_id, home_team_id, away_team_id, match_date) ==
    [match_url |-> Get(r, "match_url", NULL),
     league_id |-> league_id,
     home_team_id |-> home_team_id,
     away_team_id |-> away_team_id,
     match_time |-> Get(r, "match_time", NULL),
     match_date |-> match_date,
     scheduled_datetime |-> Get(r, "scheduled_datetime", NULL),
     home_score |-> Get(r, "home_score", None),
     away_score |-> Get(r, "away_score", None),
     home_red_cards |-> Get(r, "home_red_cards", Some(0)),
     away_red_cards |-> Get(r, "away_red_cards", Some(0)),
     match_status |-> Get(r, "match_status", NULL),
     match_stage |-> Get(r, "match_stage", NULL),
     is_live |-> Get(r, "is_live", FALSE),
     is_scheduled |-> Get(r, "is_scheduled", FALSE),
     is_finished |-> Get(r, "is_finished", FALSE),
     is_canceled |-> Get(r, "is_canceled", FALSE),
     is_postponed |-> Get(r, "is_postponed", FALSE),
     has_tv_icon |-> Get(r, "has_tv_icon", FALSE),
     has_audio_icon |-> Get(r, "has_audio_icon", FALSE),
     has_info_icon |-> Get(r, "has_info_icon", FALSE),
     half_time |-> Get(r, "half_time", NULL),
     current_minute |-> Get(r, "current_minute", None)]

(* an UPDATE that keeps the stored score where the record has none (COALESCE) *)
UpdateMatchKeepingScore(st, match_id, cols, clock) ==
    [st EXCEPT !.matches =
        [i \in 1..Len(@) |->
            IF SqlEq(@[i].match_id, match_id)
            THEN [home_score |-> IF cols.home_score = None THEN @[i].home_score
                                 ELSE cols.home_score]
                 @@ cols @@ [updated_at |-> clock] @@ @[i]
            ELSE @[i]]]

(* an UPDATE that sets scraped_at as well *)
UpdateMatchSettingScrapedAt(st, match_id, cols, clock) ==
    [st EXCEPT !.matches =
        [i \in 1..Len(@) |->
            IF SqlEq(@[i].match_id, match_id)
            THEN cols @@ [scraped_at |-> clock, updated_at |-> clock] @@ @[i]
            ELSE @[i]]]

(* UPDATE matches SET <bound columns>, updated_at = CURRENT_TIMESTAMP WHERE match_id = ? *)
UpdateMatch(st, match_id, cols, clock) ==
    [st EXCEPT !.matches =
        [i \in 1..Len(@) |->
            IF SqlEq(@[i].match_id, match_id)
            THEN cols @@ [updated_at |-> clock] @@ @[i]
            ELSE @[i]]]

(* INSERT INTO matches (match_id, <bound columns>): scraped_at and updated_at take their default *)
InsertMatch(st, match_id, cols, clock) ==
    [st EXCEPT !.matches = Append(@,
        [match_id |-> match_id] @@ cols @@
        [scraped_at |-> clock, updated_at |-> clock])]

(* the constraints of CREATE TABLE matches that an INSERT can violate: NOT NULL, UNIQUE *)
InsertMatchViolation(st, match_id) ==
    \/ match_id = NULL
    \/ \E i \in 1..Len(st.matches) : SqlEq(st.matches[i].match_id, match_id)

(* a failure path that commits what the transaction wrote so far *)
RollbackKeepingWrites(committed, working) == working

(* conn.rollback(), and conn.close() with a transaction open: the writes of the transaction are undone *)
Rollback(committed, working) == committed

(***************************************************************************)
(* insert_or_update_match(match_data).                                     *)
(* fail names where the store raises: "open" in get_db_connection (before  *)
(* the try), "commit" in conn.commit() (sqlite3.Error inside the try),     *)
(* "none" for no failure besides the constraint violations of the INSERT.  *)
(* Returns the committed store and ret: "true", "false" or "raised".       *)
(***************************************************************************)
Fails == {"none", "open", "commit"}

insert_or_update_match(st, r, fail, clock) ==
    IF fail = "open"
    THEN [st |-> st, ret |-> "raised", league_id |-> NoId,
          home_team_id |-> NoId, away_team_id |-> NoId]
    ELSE
    LET lg == get_or_create_league(st, Get(r, "league_name", NULL),
                  Get(r, "league_country", NULL), Get(r, "league_flag_class", NULL),
                  Get(r, "league_logo_url", NULL))
        hm == get_or_create_team(lg.st, Get(r, "home_team_name", NULL),
                  Get(r, "home_team_logo_url", NULL))
        aw == get_or_create_team(hm.st, Get(r, "away_team_name", NULL),
                  Get(r, "away_team_logo_url", NULL))
        match_date == match_date_of(Get(r, "scheduled_datetime", NULL))
        match_id == Get(r, "match_id", NULL)
        cols == BoundColumns(r, lg.id, hm.id, aw.id, match_date)
        existing == SelectMatch(aw.st, match_id)
        written == IF existing # {} THEN UpdateMatch(aw.st, match_id, cols, clock)
                   ELSE InsertMatch(aw.st, match_id, cols, clock)
        ids == [league_id |-> lg.id, home_team_id |-> hm.id, away_team_id |-> aw.id]
    IN  CASE existing = {} /\ InsertMatchViolation(aw.st, match_id)
                                -> [st |-> Rollback(st, aw.st), ret |-> "false"] @@ ids
          [] fail = "commit"    -> [st |-> Rollback(st, written), ret |-> "false"] @@ ids
          [] OTHER              -> [st |-> written, ret |-> "true"] @@ ids

(***************************************************************************)
(* init_database(): CREATE TABLE IF NOT EXISTS for the three tables; the   *)
(* matches table is dropped when the name 'matches' is among its own       *)
(* column names and 'league_id' is not.                                    *)
(***************************************************************************)
MatchesColumns ==
    {"id", "match_id", "match_url", "league_id", "home_team_id", "away_team_id",
     "match_time", "match_date", "scheduled_datetime", "home_score", "away_score",
     "home_red_cards", "away_red_cards", "match_status", "match_stage",
     "is_live", "is_scheduled", "is_finished", "is_canceled", "is_postponed",
     "has_tv_icon", "has_audio_icon", "has_info_icon", "half_time",
     "current_minute", "scraped_at", "updated_at"}

(* an init_database whose old-schema test fires *)
init_database_resetting(st) == [st EXCEPT !.matches = << >>]

init_database(st) ==
    IF "matches" \in MatchesColumns /\ "league_id" \notin MatchesColumns
    THEN [st EXCEPT !.matches = << >>]
    ELSE st

(***************************************************************************)
(* The records handed to the persistence layer.  A record is the dict      *)
(* extract_match_data builds (it has no red-card and no league_logo_url    *)
(* key), optionally with league_logo_url added by the image cache.         *)
(***************************************************************************)
Scheduled ==
    [match_url |-> "https://www.flashscore.pt/jogo/x/", match_time |-> "15:30",
     scheduled_datetime |-> "2026-11-06T15:30:00",
     home_score |-> None, away_score |-> None,
     match_status |-> "scheduled", match_stage |-> NULL,
     is_live |-> FALSE, is_scheduled |-> TRUE, is_finished |-> FALSE,
     is_canceled |-> FALSE, is_postponed |-> FALSE,
     has_tv_icon |-> TRUE, has_audio_icon |-> FALSE, has_info_icon |-> FALSE,
     half_time |-> NULL, current_minute |-> None]

Live ==
    [match_url |-> NULL, match_time |-> "45'",
     scheduled_datetime |-> "45'",
     home_score |-> Some(1), away_score |-> Some(0),
     match_status |-> "live", match_stage |-> "45'",
     is_live |-> TRUE, is_scheduled |-> FALSE, is_finished |-> FALSE,
     is_canceled |-> FALSE, is_postponed |-> FALSE,
     has_tv_icon |-> FALSE, has_audio_icon |-> TRUE, has_info_icon |-> TRUE,
     half_time |-> NULL, current_minute |-> Some(45)]

Payloads == {Scheduled, Live}

MatchIds == {"m1", "m2"}

EntityParts ==
    { [league_name |-> "Liga", league_country |-> "Portugal", league_flag_class |-> "fl_155",
       home_team_name |-> "A", home_team_logo_url |-> "a1.png",
       away_team_name |-> "B", away_team_logo_url |-> ""],
      [league_name |-> "Liga", league_country |-> "Portugal", league_flag_class |-> "fl_2",
       league_logo_url |-> "liga.png",
       home_team_name |-> NULL, home_team_logo_url |-> NULL,
       away_team_name |-> "A", away_team_logo_url |-> "a2.png"],
      [league_name |-> "", league_country |-> "Portugal", league_flag_class |-> NULL,
       home_team_name |-> "B", home_team_logo_url |-> "b.png",
       away_team_name |-> "", away_team_logo_url |-> "b.png"],
      [league_name |-> "Liga", league_country |-> NULL, league_flag_class |-> NULL,
       home_team_name |-> "A", home_team_logo_url |-> NULL,
       away_team_name |-> "A", away_team_logo_url |-> NULL] }

(* the payloads an entity part comes with *)
PayloadsOf(e) ==
    CASE e.league_flag_class = "fl_155" -> Payloads
      [] e.league_flag_class = "fl_2" -> {Live}
      [] OTHER -> {Scheduled}

NoIdRecord ==
    [match_id |-> NULL, league_name |-> "Taca", league_country |-> "Portugal",
     league_flag_class |-> "fl_155",
     home_team_name |-> "C", home_team_logo_url |-> "c.png",
     away_team_name |-> "A", away_team_logo_url |-> "a3.png"] @@ Scheduled

Records ==
    UNION { { [match_id |-> id] @@ e @@ p : id \in MatchIds, p \in PayloadsOf(e) } :
            e \in EntityParts } \cup {NoIdRecord}

Pending == [outcome |-> "pending"]

NoDoc == [readable |-> FALSE, nodes |-> << >>]

NoConns == << >>

NoTxn ==
    [holder |-> 0, last |-> 0, st |-> Store(<< >>, << >>, << >>),
     before |-> Store(<< >>, << >>, << >>)]

NoCall == [op |-> "none", r |-> << >>, fail |-> "none", ret |-> "none"]
NoRow == [id |-> NoText]

Init ==
    /\ leagues = << >>
    /\ teams = << >>
    /\ matches = << >>
    /\ now = 0
    /\ call = NoCall
    /\ ncalls = 0
    /\ batch = << >>
    /\ after1 = Store(<< >>, << >>, << >>)
    /\ row = NoRow
    /\ rec = Pending
    /\ doc = NoDoc
    /\ out = Pending
    /\ conns = NoConns
    /\ txn = NoTxn

(* one call of insert_or_update_match *)
InsertOrUpdateMatch(r, fail) ==
    /\ ncalls < MaxCalls
    /\ \E res \in { insert_or_update_match(Store(leagues, teams, matches), r, fail, now) } :
        /\ Len(res.st.leagues) <= MaxLeagues
        /\ leagues' = res.st.leagues
        /\ teams' = res.st.teams
        /\ matches' = res.st.matches
        /\ call' = [op |-> "insert_or_update_match", r |-> r, fail |-> fail,
                    ret |-> res.ret]
    /\ ncalls' = ncalls + 1
    /\ UNCHANGED <<now, batch, after1, row, rec, doc, out, conns, txn>>

(* one call of init_database *)
InitDatabase ==
    /\ ncalls < MaxCalls
    /\ LET st == init_database(Store(leagues, teams, matches)) IN
        /\ leagues' = st.leagues
        /\ teams' = st.teams
        /\ matches' = st.matches
    /\ call' = [op |-> "init_database", r |-> << >>, fail |-> "none", ret |-> "none"]
    /\ ncalls' = ncalls + 1
    /\ UNCHANGED <<now, batch, after1, row, rec, doc, out, conns, txn>>

(* a second passes on the store's clock *)
Tick ==
    /\ now < MaxClock
    /\ now' = now + 1
    /\ UNCHANGED <<leagues, teams, matches, call, ncalls, batch, after1, row, rec, doc, out, conns, txn>>

Next ==
    \/ \E r \in Records, fail \in Fails : InsertOrUpdateMatch(r, fail)
    \/ InitDatabase
    \/ Tick

Spec == Init /\ [][Next]_vars

(***************************************************************************)
(* The resolvers called one after the other, each call committed.          *)
(***************************************************************************)
LeagueCountries == {NULL, "Portugal"}

FlagClasses == {NULL, "fl_155"}

Logos == {NULL, "", "x.png", "y.png"}

TeamNames == {NULL, "", "A"}

GetOrCreateLeague ==
    /\ \E name \in {"", "Liga"}, country \in LeagueCountries, flag_class \in FlagClasses,
          logo_url \in Logos :
        \E res \in { get_or_create_league(Store(leagues, teams, matches),
                                          name, country, flag_class, logo_url) } :
          /\ Len(res.st.leagues) <= MaxLeagues
          /\ leagues' = res.st.leagues
          /\ call' = [op |-> "get_or_create_league",
                      r |-> [name |-> name, country |-> country,
                             flag_class |-> flag_class, logo_url |-> logo_url],
                      fail |-> "none", ret |-> res.id]
    /\ UNCHANGED <<teams, matches, now, ncalls, batch, after1, row, rec, doc, out, conns, txn>>

GetOrCreateTeam ==
    /\ \E name \in TeamNames, logo_url \in Logos :
        \E res \in { get_or_create_team(Store(leagues, teams, matches), name, logo_url) } :
          /\ teams' = res.st.teams
          /\ call' = [op |-> "get_or_create_team",
                      r |-> [name |-> name, logo_url |-> logo_url],
                      fail |-> "none", ret |-> res.id]
    /\ UNCHANGED <<leagues, matches, now, ncalls, batch, after1, row, rec, doc, out, conns, txn>>

NextResolve == GetOrCreateLeague \/ GetOrCreateTeam

SpecResolve == Init /\ [][NextResolve]_vars

(***************************************************************************)
(* save_matches_to_database(matches): the loop over the batch.  fails[i]   *)
(* is where the store raises during the upsert of record i.  An exception  *)
(* of insert_or_update_match is not caught here: it ends the loop and      *)
(* leaves save_matches_to_database; so does one of the report that follows *)
(* the loop.                                                               *)
(***************************************************************************)
(* ', '.join(failed_matches[:5]) raises TypeError when one of the first 5 is None *)
DisplayCap == 5

JoinRaises(failed_matches) ==
    \E i \in 1..Len(failed_matches) : i <= DisplayCap /\ failed_matches[i] = NULL

(* the element of a one-element set; { e(x) : x \in {v} } evaluates v once *)
Only(S) == CHOOSE x \in S : TRUE

RECURSIVE save_loop(_, _, _, _, _, _, _)
save_loop(st, recs, fails, clock, i, saved_count, failed_matches) ==
    IF i > Len(recs)
    THEN [st |-> st, ret |-> IF JoinRaises(failed_matches) THEN "raised" ELSE "returned",
          attempted |-> Len(recs),
          saved_count |-> saved_count, failed_matches |-> failed_matches]
    ELSE Only({
         CASE res.ret = "raised" ->
                [st |-> res.st, ret |-> "raised", attempted |-> i,
                 saved_count |-> saved_count, failed_matches |-> failed_matches]
           [] res.ret = "true" ->
                save_loop(res.st, recs, fails, clock, i + 1, saved_count + 1, failed_matches)
           [] OTHER ->
                save_loop(res.st, recs, fails, clock, i + 1, saved_count,
                          Append(failed_matches, Get(recs[i], "match_id", "unknown")))
         : res \in { insert_or_update_match(st, recs[i], fails[i], clock) } })

save_matches_to_database(st, recs, fails, clock) ==
    save_loop(st, recs, fails, clock, 1, 0, << >>)

(* the records of the batches *)
BatchRecords ==
    { r \in Records :
        \/ r.match_status = "scheduled" /\ r.league_flag_class # "fl_2" /\ r.league_name # ""
        \/ r.match_status = "live" /\ r.match_id = "m1" /\ r.league_flag_class = "fl_2" }

SeqsUpTo(S, n) == UNION { [1..k -> S] : k \in 1..n }

Batches == SeqsUpTo(BatchRecords, MaxBatch)

(* a first run of save_matches_to_database over a batch *)
SaveMatchesToDatabase ==
    /\ batch = << >>
    /\ \E recs \in Batches : \E fails \in [1..Len(recs) -> Fails] :
        \E res \in { save_matches_to_database(Store(leagues, teams, matches), recs, fails, now) } :
        /\ Len(res.st.leagues) <= MaxLeagues
        /\ leagues' = res.st.leagues
        /\ teams' = res.st.teams
        /\ matches' = res.st.matches
        /\ call' = [op |-> "save_matches_to_database", r |-> recs, fail |-> fails,
                    ret |-> res.ret, run |-> 1, attempted |-> res.attempted,
                    saved_count |-> res.saved_count,
                    failed_matches |-> res.failed_matches]
        /\ ncalls' = ncalls + res.attempted
        /\ after1' = res.st @@ [fail |-> fails]
        /\ batch' = recs
    /\ UNCHANGED <<now, row, rec, doc, out, conns, txn>>

(* save_matches_to_database run a second time over the same batch *)
SaveMatchesAgain ==
    /\ batch # << >>
    /\ call.op = "save_matches_to_database" /\ call.run = 1
    /\ \E fails \in [1..Len(batch) -> Fails] :
        \E res \in { save_matches_to_database(Store(leagues, teams, matches), batch, fails, now) } :
        /\ leagues' = res.st.leagues
        /\ teams' = res.st.teams
        /\ matches' = res.st.matches
        /\ call' = [op |-> "save_matches_to_database", r |-> batch, fail |-> fails,
                    ret |-> res.ret, run |-> 2, attempted |-> res.attempted,
                    saved_count |-> res.saved_count,
                    failed_matches |-> res.failed_matches]
        /\ ncalls' = ncalls + res.attempted
    /\ UNCHANGED <<now, batch, after1, row, rec, doc, out, conns, txn>>

NextBatch ==
    \/ SaveMatchesToDatabase
    \/ SaveMatchesAgain
    \/ Tick

SpecBatch == Init /\ [][NextBatch]_vars

(***************************************************************************)
(* The record builder, extract_match_data(match_element, league_info).     *)
(* A match row element is given by what the builder reads of it: the id    *)
(* attribute, the marker classes, the href of the link anchor, and the     *)
(* stripped texts of the time, stage, participant and score elements       *)
(* (NoText / NULL where find() returns None).                              *)
(***************************************************************************)
SeqsFrom0(S, n) == UNION { [1..k -> S] : k \in 0..n }

TextTruthy(t) == t # NoText /\ t # << >>

(* 'token' in text *)
Contains(text, token) == \E i \in 1..Len(text) : text[i] = token

MarkerClasses ==
    {"event__match--live", "event__match--twoLine", "event__match--scheduled",
     "event__match--finished", "event__match--last"}

(* the classification with the scheduled marker tested before the live ones *)
extract_match_status_scheduled_first(classes) ==
    LET is_live == "event__match--live" \in classes \/ "event__match--twoLine" \in classes
        is_scheduled == "event__match--scheduled" \in classes
        is_finished == "event__match--finished" \in classes \/ "event__match--last" \in classes
    IN  [is_live |-> is_live, is_scheduled |-> is_scheduled, is_finished |-> is_finished,
         is_canceled |-> FALSE, is_postponed |-> FALSE,
         match_status |-> CASE is_scheduled -> "scheduled"
                            [] is_live -> "live"
                            [] is_finished -> "finished"
                            [] OTHER -> "unknown"]

extract_match_status(classes) ==
    LET is_live == "event__match--live" \in classes \/ "event__match--twoLine" \in classes
        is_scheduled == "event__match--scheduled" \in classes
        is_finished == "event__match--finished" \in classes \/ "event__match--last" \in classes
    IN  [is_live |-> is_live, is_scheduled |-> is_scheduled, is_finished |-> is_finished,
         is_canceled |-> FALSE, is_postponed |-> FALSE,
         match_status |-> CASE is_live -> "live"
                            [] is_scheduled -> "scheduled"
                            [] is_finished -> "finished"
                            [] OTHER -> "unknown"]

(* the override with the postponement tokens tested first *)
status_override_postponed_first(status_info, match_stage) ==
    IF ~TextTruthy(match_stage) THEN status_info
    ELSE IF Contains(match_stage, "Adiado") \/ Contains(match_stage, "Postponed")
         THEN [status_info EXCEPT !.is_postponed = TRUE, !.match_status = "postponed"]
         ELSE IF Contains(match_stage, "Cancelado") \/ Contains(match_stage, "Canceled")
              THEN [status_info EXCEPT !.is_canceled = TRUE, !.match_status = "canceled"]
              ELSE status_info

(* "Check for canceled/postponed": the stage text overrides the class-derived status *)
status_override(status_info, match_stage) ==
    IF ~TextTruthy(match_stage) THEN status_info
    ELSE IF Contains(match_stage, "Cancelado") \/ Contains(match_stage, "Canceled")
         THEN [status_info EXCEPT !.is_canceled = TRUE, !.match_status = "canceled"]
         ELSE IF Contains(match_stage, "Adiado") \/ Contains(match_stage, "Postponed")
              THEN [status_info EXCEPT !.is_postponed = TRUE, !.match_status = "postponed"]
              ELSE status_info

(* the stage text: that of the event__stage--block when the stage element has one *)
stage_text(stage_elem, stage_block) ==
    IF stage_elem = NoText THEN NoText
    ELSE IF stage_block # NoText THEN stage_block ELSE stage_elem

StageTokens ==
    {"Cancelado", "Canceled", "Adiado", "Postponed", "Intervalo", "HT", "45'", "Fim"}

(* 'HT' in token.upper() *)
UpperHasHT(token) == token = "HT"

(* re.search(r"(\d+)'", token): the number, None when there is no match *)
MinuteOf(token) == IF token = "45'" THEN Some(45) ELSE None

half_time_of(match_stage) ==
    IF TextTruthy(match_stage)
       /\ ( (\E i \in 1..Len(match_stage) : UpperHasHT(match_stage[i]))
            \/ Contains(match_stage, "Intervalo") )
    THEN "HT" ELSE NULL

current_minute_of(match_stage) ==
    IF TextTruthy(match_stage) /\ half_time_of(match_stage) = NULL
       /\ \E i \in 1..Len(match_stage) : MinuteOf(match_stage[i]) # None
    THEN MinuteOf(match_stage[Min({ i \in 1..Len(match_stage) : MinuteOf(match_stage[i]) # None })])
    ELSE None

(* int(text): an optional sign and decimal digits, None for ValueError *)
DigitChars == {"0", "1", "2"}

DigitValue(c) ==
    CASE c = "0" -> 0 [] c = "1" -> 1 [] c = "2" -> 2 [] c = "3" -> 3 [] c = "4" -> 4
      [] c = "5" -> 5 [] c = "6" -> 6 [] c = "7" -> 7 [] c = "8" -> 8 [] c = "9" -> 9

RECURSIVE DecimalValue(_)
DecimalValue(ds) ==
    IF ds = << >> THEN 0
    ELSE 10 * DecimalValue(SubSeq(ds, 1, Len(ds) - 1)) + DigitValue(ds[Len(ds)])

int_or_none(text) ==
    LET signed == Len(text) >= 1 /\ text[1] = "-"
        digits == IF signed THEN Tail(text) ELSE text
    IN  IF Len(digits) >= 1 /\ \A i \in 1..Len(digits) : digits[i] \in DigitChars
        THEN Some(IF signed THEN 0 - DecimalValue(digits) ELSE DecimalValue(digits))
        ELSE None

(* a score that falls back to 0 where the text is no number *)
parse_score_zero_default(cell) ==
    IF cell = NoText THEN None
    ELSE IF cell # << >> /\ cell # <<"-">>
         THEN IF int_or_none(cell) = None THEN Some(0) ELSE int_or_none(cell)
         ELSE None

(* "Extract scores": one side's score cell *)
parse_score(cell) ==
    IF cell = NoText THEN None
    ELSE IF cell # << >> /\ cell # <<"-">> THEN int_or_none(cell) ELSE None

(* the id attribute: 'g_1_' removed wherever it occurs when the id starts with it *)
IdPrefix == "g_1_"

RemoveAll(text, token) == SelectSeq(text, LAMBDA t : t # token)

match_id_of(id_attr) ==
    IF id_attr = NoText THEN << >>
    ELSE IF Len(id_attr) >= 1 /\ id_attr[1] = IdPrefix THEN RemoveAll(id_attr, IdPrefix)
         ELSE id_attr

(* the href of the link anchor, made absolute when it does not start with 'http' *)
SiteOrigin == "https://www.flashscore.pt"

StartsWithHttp(href) ==
    href \in {"https://www.flashscore.pt/jogo/x/", "http://example.org/jogo/x/"}

match_url_of(href) ==
    IF href # NULL /\ href # "" /\ ~StartsWithHttp(href) THEN SiteOrigin \o href ELSE href

(* a text as a sequence of characters, and the string it spells *)
RECURSIVE Text(_)
Text(chars) == IF chars = << >> THEN "" ELSE chars[1] \o Text(Tail(chars))

(* \d *)
Digits == {"0", "1", "2", "3", "4", "5", "6", "7", "8", "9"}

DigitText == <<"0", "1", "2", "3", "4", "5", "6", "7", "8", "9">>

(* isoformat() writes hours, minutes and seconds with two digits *)
TwoDigits(n) == DigitText[(n \div 10) + 1] \o DigitText[(n % 10) + 1]

(* datetime.now() *)
Today == "2026-11-06"

(* the parser that gives None wherever no instant is derived *)
parse_match_time_instant_only(time_str) ==
    IF time_str = NoText \/ time_str = << >> THEN NULL
    ELSE LET n == Len(time_str)
             matched == /\ n \in 4..5
                        /\ time_str[n - 2] = ":"
                        /\ \A i \in (1..n) \ {n - 2} : time_str[i] \in Digits
         IN  IF matched /\ DecimalValue(SubSeq(time_str, 1, n - 3)) <= 23
                        /\ DecimalValue(SubSeq(time_str, n - 1, n)) <= 59
             THEN Today \o "T" \o TwoDigits(DecimalValue(SubSeq(time_str, 1, n - 3)))
                        \o ":" \o TwoDigits(DecimalValue(SubSeq(time_str, n - 1, n)))
                        \o ":00"
             ELSE NULL

(* parse_match_time(time_str): ^(\d{1,2}):(\d{2})$, then today.replace(hour,
   minute, second=0, microsecond=0), which raises ValueError for an hour
   above 23 or a minute above 59; the text is given as its characters, None
   as NoText *)
parse_match_time(time_str) ==
    IF time_str = NoText \/ time_str = << >> THEN NULL
    ELSE LET n == Len(time_str)
             matched == /\ n \in 4..5
                        /\ time_str[n - 2] = ":"
                        /\ \A i \in (1..n) \ {n - 2} : time_str[i] \in Digits
             hour == DecimalValue(SubSeq(time_str, 1, n - 3))
             minute == DecimalValue(SubSeq(time_str, n - 1, n))
         IN  IF matched
             THEN IF hour <= 23 /\ minute <= 59
                  THEN Today \o "T" \o TwoDigits(hour) \o ":" \o TwoDigits(minute) \o ":00"
                  ELSE Text(time_str)
             ELSE Text(time_str)

Dropped == [outcome |-> "none"]

(* el.raises: some step of the row's building raises; "except Exception" turns
   that into None, as does a missing id *)
extract_match_data(el, league_info) ==
    LET match_id == match_id_of(el.id)
        match_stage == stage_text(el.stage_elem, el.stage_block)
        status_info == status_override(extract_match_status(el.classes), match_stage)
    IN  IF el.raises \/ match_id = << >> THEN Dropped
        ELSE [outcome |-> "record",
              match_id |-> match_id,
              match_url |-> match_url_of(el.href),
              league_name |-> league_info.league_name,
              league_country |-> league_info.league_country,
              league_flag_class |-> league_info.league_flag_class,
              match_time |-> IF el.time = NoText THEN NULL ELSE Text(el.time),
              scheduled_datetime |-> parse_match_time(el.time),
              home_team_name |-> el.home_team_name,
              home_team_logo_url |-> el.home_team_logo,
              away_team_name |-> el.away_team_name,
              away_team_logo_url |-> el.away_team_logo,
              home_score |-> parse_score(el.score_home),
              away_score |-> parse_score(el.score_away),
              match_status |-> status_info.match_status,
              match_stage |-> match_stage,
              is_live |-> status_info.is_live,
              is_scheduled |-> status_info.is_scheduled,
              is_finished |-> status_info.is_finished,
              is_canceled |-> status_info.is_canceled,
              is_postponed |-> status_info.is_postponed,
              has_tv_icon |-> el.tv_icon,
              has_audio_icon |-> el.audio_icon,
              has_info_icon |-> el.info_icon,
              half_time |-> half_time_of(match_stage),
              current_minute |-> current_minute_of(match_stage)]

(* the match rows handed to the builder *)
PlainRow ==
    [id |-> <<IdPrefix, "abc123">>, classes |-> {"event__match--finished"},
     href |-> "/jogo/x/", time |-> <<"1", "5", ":", "3", "0">>,
     stage_elem |-> NoText, stage_block |-> NoText,
     home_team_name |-> "Team A", home_team_logo |-> "a.png",
     away_team_name |-> "Team B", away_team_logo |-> NULL,
     score_home |-> <<"2">>, score_away |-> <<"1">>,
     tv_icon |-> FALSE, audio_icon |-> FALSE, info_icon |-> FALSE,
     raises |-> FALSE]

StageTexts == SeqsFrom0(StageTokens, MaxStageLen)

StageBlocks == {NoText, <<"45'">>, <<"Cancelado">>}

ScoreChars == DigitChars \cup {"-", "x"}

ScoreCells == {NoText} \cup SeqsFrom0(ScoreChars, MaxScoreLen)

IdAttrs ==
    {NoText, << >>, <<IdPrefix>>, <<"abc123">>, <<IdPrefix, "abc123">>,
     <<IdPrefix, "abc123", IdPrefix>>, <<"abc123", IdPrefix>>}

Hrefs ==
    {NULL, "", "/jogo/x/", "jogo/x/", "https://www.flashscore.pt/jogo/x/",
     "http://example.org/jogo/x/"}

TimeTexts == {NoText, <<"1", "5", ":", "3", "0">>, <<"4", "5", "'">>}

TimeChars == {"0", "2", "9", ":", "F"}

TimeCells == SeqsFrom0(TimeChars, MaxTimeLen)

(* a row read for its status, for its scores, for its id, link and time, for
   its participants and icons, or for its time alone *)
IsRowInput(el) ==
    \/ \E c \in SUBSET MarkerClasses, t \in {NoText} \cup StageTexts, b \in StageBlocks :
         el = [PlainRow EXCEPT !.classes = c, !.stage_elem = t, !.stage_block = b]
    \/ \E h \in ScoreCells, a \in ScoreCells :
         el = [PlainRow EXCEPT !.score_home = h, !.score_away = a]
    \/ \E i \in IdAttrs, u \in Hrefs, t \in TimeTexts :
         el = [PlainRow EXCEPT !.id = i, !.href = u, !.time = t]
    \/ \E n \in {NULL, "", "Team A"}, l \in {NULL, "", "a.png"}, v \in BOOLEAN,
          x \in BOOLEAN :
         el = [PlainRow EXCEPT !.home_team_name = n, !.home_team_logo = l,
                               !.tv_icon = v, !.audio_icon = ~v, !.info_icon = v,
                               !.raises = x]
    \/ \E t \in TimeCells : el = [PlainRow EXCEPT !.time = t]

LeagueInfos ==
    { [league_name |-> NULL, league_country |-> NULL, league_flag_class |-> NULL],
      [league_name |-> "Liga", league_country |-> "Portugal", league_flag_class |-> "fl_155"] }

InitRow ==
    /\ leagues = << >>
    /\ teams = << >>
    /\ matches = << >>
    /\ now = 0
    /\ call = NoCall
    /\ ncalls = 0
    /\ batch = << >>
    /\ after1 = Store(<< >>, << >>, << >>)
    /\ IsRowInput(row)
    /\ rec = Pending
    /\ doc = NoDoc
    /\ out = Pending
    /\ conns = NoConns
    /\ txn = NoTxn

(* one call of extract_match_data *)
ExtractMatchData ==
    /\ rec = Pending
    /\ \E league_info \in LeagueInfos : rec' = extract_match_data(row, league_info)
    /\ UNCHANGED <<leagues, teams, matches, now, call, ncalls, batch, after1, row, doc, out, conns, txn>>

NextRow == ExtractMatchData

SpecRow == InitRow /\ [][NextRow]_vars

(***************************************************************************)
(* The tree locator, extract_all_matches_from_html(html_file_path).        *)
(* A parsed document is the sequence of its elements in document order;    *)
(* each element names its parent by position (0 is the soup object, whose  *)
(* parent is None).  The kinds are what the locator's searches tell apart: *)
(*   "section"  <div class="sportName soccer">                             *)
(*   "div"      any other container                                        *)
(*   "header"   <div class="headerLeague">, with the league fields         *)
(*              extract_league_info reads from it                          *)
(*   "row"      <div class="event__match" data-event-row="true">           *)
(***************************************************************************)
NoLeague == [league_name |-> NULL, league_country |-> NULL, league_flag_class |-> NULL]

HeaderInfos ==
    { [league_name |-> "Liga", league_country |-> "Portugal", league_flag_class |-> "fl_155"],
      [league_name |-> NULL, league_country |-> "Portugal", league_flag_class |-> NULL] }

(* extract_league_info(league_element): the fields the header holds *)
extract_league_info(header) == header.league

ParentOf(d, i) == IF i = 0 THEN None ELSE Some(d[i].parent)

RECURSIVE AncestorsOrSelf(_, _)
AncestorsOrSelf(d, i) == IF i = 0 THEN {0} ELSE {i} \cup AncestorsOrSelf(d, d[i].parent)

(* the elements below element a *)
Descendants(d, a) == { i \in 1..Len(d) : i # a /\ a \in AncestorsOrSelf(d, i) }

RECURSIVE InOrder(_)
InOrder(S) == IF S = {} THEN << >> ELSE <<Min(S)>> \o InOrder(S \ {Min(S)})

(* a.find_all(...): the matching elements below a, in document order *)
find_all(d, a, kind) == InOrder({ i \in Descendants(d, a) : d[i].kind = kind })

(* a.find(...): the first matching element below a, None when there is none *)
find(d, a, kind) ==
    IF find_all(d, a, kind) = << >> THEN None ELSE Some(find_all(d, a, kind)[1])

(* el.find_previous_sibling(): None when el is the first child *)
find_previous_sibling(d, i) ==
    LET before == { j \in 1..(i - 1) : d[j].parent = d[i].parent }
    IN  IF before = {} THEN None ELSE Some(Min({ j \in before : \A k \in before : k <= j }))

(* "Search backwards through previous siblings" *)
RECURSIVE sibling_walk(_, _)
sibling_walk(d, prev_sibling) ==
    IF prev_sibling = None THEN NoLeague
    ELSE IF find(d, prev_sibling[1], "header") # None
         THEN extract_league_info(d[find(d, prev_sibling[1], "header")[1]])
         ELSE sibling_walk(d, find_previous_sibling(d, prev_sibling[1]))

(* the search up the tree without its limit of depth parents *)
RECURSIVE ancestor_walk_unbounded(_, _, _, _)
ancestor_walk_unbounded(d, parent, depth, league_info) ==
    IF parent = None THEN league_info
    ELSE IF find(d, parent[1], "header") # None
         THEN extract_league_info(d[find(d, parent[1], "header")[1]])
         ELSE ancestor_walk_unbounded(d, ParentOf(d, parent[1]), depth, league_info)

(* "Search up the tree for league header", at most depth parents *)
RECURSIVE ancestor_walk(_, _, _, _)
ancestor_walk(d, parent, depth, league_info) ==
    IF depth = 0 \/ parent = None THEN league_info
    ELSE IF find(d, parent[1], "header") # None
         THEN extract_league_info(d[find(d, parent[1], "header")[1]])
         ELSE ancestor_walk(d, ParentOf(d, parent[1]), depth - 1, league_info)

PrimaryDepth == 5
FallbackDepth == 10

primary_league_info(d, i) ==
    LET league_info == sibling_walk(d, find_previous_sibling(d, i))
    IN  IF ~Truthy(league_info.league_name)
        THEN ancestor_walk(d, ParentOf(d, i), PrimaryDepth, league_info)
        ELSE league_info

fallback_league_info(d, i) == ancestor_walk(d, ParentOf(d, i), FallbackDepth, NoLeague)

(* the element handed to extract_match_data for the row at position i *)
RowElement(d, i) == [PlainRow EXCEPT !.id = d[i].id, !.raises = d[i].raises]

(* the loop over the rows without the row's own exception handler: the rows
   after one whose building raises are never reached *)
RECURSIVE records_of_unguarded(_, _, _)
records_of_unguarded(d, match_elements, fallback) ==
    IF match_elements = << >> THEN << >>
    ELSE LET i == Head(match_elements)
             match_data == extract_match_data(RowElement(d, i),
                               IF fallback THEN fallback_league_info(d, i)
                               ELSE primary_league_info(d, i))
         IN  IF d[i].raises THEN << >>
             ELSE (IF match_data.outcome = "record" THEN <<match_data>> ELSE << >>)
                  \o records_of_unguarded(d, Tail(match_elements), fallback)

(* the records of the rows of a list, those that yield none left out *)
RECURSIVE records_of(_, _, _)
records_of(d, match_elements, fallback) ==
    IF match_elements = << >> THEN << >>
    ELSE LET i == Head(match_elements)
             match_data == extract_match_data(RowElement(d, i),
                               IF fallback THEN fallback_league_info(d, i)
                               ELSE primary_league_info(d, i))
         IN  (IF match_data.outcome = "record" THEN <<match_data>> ELSE << >>)
             \o records_of(d, Tail(match_elements), fallback)

(* "Process each soccer section" *)
RECURSIVE primary_pass(_, _)
primary_pass(d, soccer_sections) ==
    IF soccer_sections = << >> THEN << >>
    ELSE records_of(d, find_all(d, Head(soccer_sections), "row"), FALSE)
         \o primary_pass(d, Tail(soccer_sections))

(* the extraction without the direct search *)
fallback_pass_skipped(d, all_matches) == all_matches

(* "Fallback: if no matches found with the above method, try direct search" *)
fallback_pass(d, all_matches) ==
    IF all_matches = << >> THEN records_of(d, find_all(d, 0, "row"), TRUE) ELSE all_matches

(* the extraction with the read of the document left outside any handler *)
extract_all_matches_from_html_unguarded(document) ==
    IF ~document.readable THEN [outcome |-> "raised", all_matches |-> << >>, fallback |-> FALSE]
    ELSE [outcome |-> "returned",
          all_matches |-> fallback_pass(document.nodes, primary_pass(document.nodes,
                              find_all(document.nodes, 0, "section"))),
          fallback |-> FALSE]

extract_all_matches_from_html(document) ==
    IF ~document.readable THEN [outcome |-> "returned", all_matches |-> << >>, fallback |-> FALSE]
    ELSE Only({ [outcome |-> "returned",
                 all_matches |-> fallback_pass(document.nodes, all_matches),
                 fallback |-> all_matches = << >>] :
                all_matches \in { primary_pass(document.nodes,
                                               find_all(document.nodes, 0, "section")) } })

(* the documents handed to the locator *)
RowNames ==
    <<"r1", "r2", "r3", "r4", "r5", "r6", "r7", "r8", "r9", "r10", "r11", "r12", "r13", "r14">>

IdAt(n) == <<IdPrefix, RowNames[n]>>

Element(kind, parent, league, id, raises) ==
    [kind |-> kind, parent |-> parent, league |-> league, id |-> id, raises |-> raises]

(* the elements a document can hold at position n *)
ElementsAt(n) ==
    { Element(k, p, NoLeague, NoText, FALSE) : k \in {"section", "div"}, p \in 0..(n - 1) }
    \cup { Element("header", p, l, NoText, FALSE) : p \in 0..(n - 1), l \in HeaderInfos }
    \cup { Element("row", p, NoLeague, i, FALSE) : p \in 0..(n - 1), i \in {IdAt(n), << >>} }
    \cup { Element("row", p, NoLeague, IdAt(n), TRUE) : p \in 0..(n - 1) }

(* e can follow the elements of d in document order: its parent is the soup
   or a container that is still open after the last element of d *)
CanFollow(d, e) ==
    \/ e.parent = 0
    \/ /\ d # << >>
       /\ e.parent \in AncestorsOrSelf(d, Len(d))
       /\ d[e.parent].kind \in {"section", "div"}

(* the element sequences of at most n elements *)
RECURSIVE NodesUpTo(_)
NodesUpTo(n) ==
    IF n = 0 THEN { << >> }
    ELSE NodesUpTo(n - 1)
         \cup { Append(q[1], q[2]) :
                  q \in { q \in NodesUpTo(n - 1) \X ElementsAt(n) :
                            Len(q[1]) = n - 1 /\ CanFollow(q[1], q[2]) } }

(* a file that cannot be read, or one that parses to at most n elements *)
Documents(n) == { NoDoc } \cup { [readable |-> TRUE, nodes |-> d] : d \in NodesUpTo(n) }

InitDoc ==
    /\ leagues = << >>
    /\ teams = << >>
    /\ matches = << >>
    /\ now = 0
    /\ call = NoCall
    /\ ncalls = 0
    /\ batch = << >>
    /\ after1 = Store(<< >>, << >>, << >>)
    /\ row = NoRow
    /\ rec = Pending
    /\ doc \in Documents(MaxNodes)
    /\ out = Pending
    /\ conns = NoConns
    /\ txn = NoTxn

(* one call of extract_all_matches_from_html *)
ExtractAllMatchesFromHtml ==
    /\ out = Pending
    /\ out' = extract_all_matches_from_html(doc)
    /\ UNCHANGED <<leagues, teams, matches, now, call, ncalls, batch, after1, row, rec, doc, conns, txn>>

NextDoc == ExtractAllMatchesFromHtml

SpecDoc == InitDoc /\ [][NextDoc]_vars

(***************************************************************************)
(* The locator on documents with one match row, the last element, below    *)
(* sections, plain containers and league headers.                          *)
(***************************************************************************)
(* the sections, containers and headers a document can hold at position n *)
StructureAt(n) ==
    { Element(k, p, NoLeague, NoText, FALSE) : k \in {"section", "div"}, p \in 0..(n - 1) }
    \cup { Element("header", p, l, NoText, FALSE) : p \in 0..(n - 1), l \in HeaderInfos }

RECURSIVE StructuresUpTo(_)
StructuresUpTo(n) ==
    IF n = 0 THEN { << >> }
    ELSE StructuresUpTo(n - 1)
         \cup { Append(q[1], q[2]) :
                  q \in { q \in StructuresUpTo(n - 1) \X StructureAt(n) :
                            Len(q[1]) = n - 1 /\ CanFollow(q[1], q[2]) } }

(* the documents of at most n elements that end with their one match row *)
LeagueDocuments(n) ==
    { [readable |-> TRUE,
       nodes |-> Append(q[1], Element("row", q[2], NoLeague, IdAt(Len(q[1]) + 1), FALSE))] :
      q \in { q \in StructuresUpTo(n - 1) \X (0..(n - 1)) :
                CanFollow(q[1], Element("row", q[2], NoLeague, NoText, FALSE)) } }

(* a league header at the top of the document, then k containers nested in
   one another, the s-th of them a target-sport section (none for s = 0),
   and the match row inside the innermost *)
ChainNodes(k, s) ==
    << Element("header", 0, [league_name |-> "Liga", league_country |-> "Portugal",
                             league_flag_class |-> "fl_155"], NoText, FALSE) >>
    \o [j \in 1..k |-> Element(IF j = s THEN "section" ELSE "div",
                                IF j = 1 THEN 0 ELSE j, NoLeague, NoText, FALSE)]
    \o << Element("row", IF k = 0 THEN 0 ELSE k + 1, NoLeague, IdAt(k + 2), FALSE) >>

ChainDocuments(n) ==
    { [readable |-> TRUE, nodes |-> ChainNodes(q[1], q[2])] :
      q \in { q \in (0..n) \X (0..n) : q[2] <= q[1] } }

InitLeague ==
    /\ leagues = << >>
    /\ teams = << >>
    /\ matches = << >>
    /\ now = 0
    /\ call = NoCall
    /\ ncalls = 0
    /\ batch = << >>
    /\ after1 = Store(<< >>, << >>, << >>)
    /\ row = NoRow
    /\ rec = Pending
    /\ doc \in LeagueDocuments(MaxLeagueNodes) \cup ChainDocuments(MaxChain)
    /\ out = Pending
    /\ conns = NoConns
    /\ txn = NoTxn

NextLeague == ExtractAllMatchesFromHtml

SpecLeague == InitLeague /\ [][NextLeague]_vars

(***************************************************************************)
(* The program run: init_database(), the extraction of the document, and   *)
(* the save of the records when there are any.                             *)
(***************************************************************************)
MaxMainNodes == 2

(* "if matches: save_matches_to_database(matches) else: print_error(...)";
   an exception of a step ends the run *)
main(st, extracted, fails, clock) ==
    IF extracted.outcome # "returned"
    THEN [st |-> init_database(st), ret |-> "raised", attempted |-> 0]
    ELSE IF extracted.all_matches = << >>
    THEN [st |-> init_database(st), ret |-> "returned", attempted |-> 0]
    ELSE Only({ [st |-> res.st, ret |-> res.ret, attempted |-> res.attempted] :
                res \in { save_matches_to_database(init_database(st),
                              extracted.all_matches, fails, clock) } })

(* a document of an earlier run, and the tables that run left *)
PriorDocument ==
    [readable |-> TRUE,
     nodes |-> << Element("section", 0, NoLeague, NoText, FALSE),
                  Element("header", 1, [league_name |-> "Liga", league_country |-> "Portugal",
                                       league_flag_class |-> "fl_155"], NoText, FALSE),
                  Element("row", 1, NoLeague, IdAt(3), FALSE) >>]

PriorStore ==
    main(Store(<< >>, << >>, << >>),
         extract_all_matches_from_html(PriorDocument), <<"none">>, 0).st

InitMain ==
    /\ \E st \in {Store(<< >>, << >>, << >>), PriorStore} :
          /\ leagues = st.leagues
          /\ teams = st.teams
          /\ matches = st.matches
    /\ now \in 0..MaxClock
    /\ call = NoCall
    /\ ncalls = 0
    /\ batch = << >>
    /\ after1 = Store(<< >>, << >>, << >>)
    /\ row = NoRow
    /\ rec = Pending
    /\ doc \in Documents(MaxMainNodes)
    /\ out = Pending
    /\ conns = NoConns
    /\ txn = NoTxn

Main ==
    /\ call.op = "none"
    /\ \E extracted \in {extract_all_matches_from_html(doc)} :
       \E fails \in [1..Len(extracted.all_matches) -> Fails] :
       \E res \in { main(Store(leagues, teams, matches), extracted, fails, now) } :
         /\ leagues' = res.st.leagues
         /\ teams' = res.st.teams
         /\ matches' = res.st.matches
         /\ out' = extracted
         /\ call' = [op |-> "main", r |-> extracted.all_matches, fail |-> fails,
                     ret |-> res.ret, attempted |-> res.attempted,
                     before |-> Store(leagues, teams, matches)]
         /\ ncalls' = ncalls + res.attempted
    /\ UNCHANGED <<now, batch, after1, row, rec, doc, conns, txn>>

NextMain == Main

SpecMain == InitMain /\ [][NextMain]_vars

(***************************************************************************)
(* Two writers, each running insert_or_update_match on a connection of its *)
(* own, statement by statement.  SQLite with the rollback journal and the  *)
(* sqlite3 module's implicit transactions:                                 *)
(*   - a SELECT outside a transaction reads the committed tables;          *)
(*   - the first INSERT or UPDATE of a call begins the transaction and     *)
(*     takes the write lock; while another connection holds it the         *)
(*     statement waits, and raises OperationalError (database is locked)   *)
(*     when the connection's busy timeout passes first;                    *)
(*   - an INSERT that breaks UNIQUE raises IntegrityError;                 *)
(*   - both are sqlite3.Error: the call rolls back and returns False.      *)
(* A connection stands before the statement named by pc; result is what    *)
(* its last SELECT fetched (None, or the row's id and logo_url).           *)
(***************************************************************************)
Writers == {1, 2}

Committed == Store(leagues, teams, matches)

(* the tables a statement of writer w runs against *)
View(w) == IF txn.holder = w THEN txn.st ELSE Committed

(* the write lock is free or held by w *)
CanWrite(w) == txn.holder = 0 \/ txn.holder = w

Connection(r) ==
    [pc |-> "league_select", r |-> r, result |-> None, existing |-> FALSE,
     league_id |-> NoId, home_team_id |-> NoId, away_team_id |-> NoId, ret |-> "none"]

(* cursor.fetchone() of SELECT id, logo_url: the first row found *)
Fetched(rows, found) ==
    IF found = {} THEN None ELSE Some([id |-> Min(found), logo_url |-> rows[Min(found)].logo_url])

(* UNIQUE(name, country) of leagues and UNIQUE(name) of teams; NULLs are distinct *)
LeagueInsertViolation(st, name, country) == LeagueLookup(st, name, country) # {}

TeamInsertViolation(st, name) == TeamLookup(st, name) # {}

(* the statement of w wrote st inside its transaction *)
Wrote(w, st) == txn' = [txn EXCEPT !.holder = w, !.st = st]

(* except sqlite3.Error: conn.rollback(); return False *)
Failed(w) ==
    /\ conns' = [conns EXCEPT ![w].pc = "done", ![w].ret = "false"]
    /\ txn' = IF txn.holder = w THEN [txn EXCEPT !.holder = 0, !.st = NoTxn.st] ELSE txn
    /\ UNCHANGED <<leagues, teams, matches>>

(* get_or_create_league: "if not name: return None", else the SELECT *)
SelectLeague(w) ==
    /\ conns[w].pc = "league_select"
    /\ LET r == conns[w].r IN
       IF ~Truthy(Get(r, "league_name", NULL))
       THEN conns' = [conns EXCEPT ![w].pc = "home_select", ![w].league_id = NoId]
       ELSE conns' = [conns EXCEPT ![w].pc = "league_write",
                         ![w].result = Fetched(View(w).leagues,
                             LeagueLookup(View(w), Get(r, "league_name", NULL),
                                          Get(r, "league_country", NULL)))]
    /\ UNCHANGED <<leagues, teams, matches, txn>>
    /\ UNCHANGED <<now, call, ncalls, batch, after1, row, rec, doc, out>>

(* the statement get_or_create_league runs after its SELECT, if any *)
LeagueWrites(w) ==
    LET c == conns[w] IN
    IF c.result = None THEN TRUE
    ELSE Truthy(Get(c.r, "league_logo_url", NULL))
         /\ c.result[1].logo_url # Get(c.r, "league_logo_url", NULL)

(* get_or_create_league: UPDATE leagues SET logo_url, INSERT INTO leagues, or neither *)
WriteLeague(w) ==
    /\ conns[w].pc = "league_write"
    /\ LET c == conns[w]
           r == c.r
           name == Get(r, "league_name", NULL)
           country == Get(r, "league_country", NULL)
           logo_url == Get(r, "league_logo_url", NULL)
           st == View(w)
       IN  IF ~LeagueWrites(w)
           THEN /\ conns' = [conns EXCEPT ![w].pc = "home_select",
                                          ![w].league_id = c.result[1].id]
                /\ UNCHANGED <<leagues, teams, matches, txn>>
           ELSE /\ CanWrite(w)
                /\ IF c.result # None
                   THEN /\ Wrote(w, [st EXCEPT !.leagues[c.result[1].id].logo_url = logo_url])
                        /\ conns' = [conns EXCEPT ![w].pc = "home_select",
                                                  ![w].league_id = c.result[1].id]
                        /\ UNCHANGED <<leagues, teams, matches>>
                   ELSE IF LeagueInsertViolation(st, name, country)
                        THEN Failed(w)
                        ELSE /\ Len(st.leagues) < MaxLeagues
                             /\ Wrote(w, [st EXCEPT !.leagues = Append(@,
                                    [name |-> name, country |-> country,
                                     flag_class |-> Get(r, "league_flag_class", NULL),
                                     logo_url |-> logo_url])])
                             /\ conns' = [conns EXCEPT ![w].pc = "home_select",
                                                       ![w].league_id = Len(st.leagues) + 1]
                             /\ UNCHANGED <<leagues, teams, matches>>
    /\ UNCHANGED <<now, call, ncalls, batch, after1, row, rec, doc, out>>

(* the keys of the record and the positions of the statements for each side *)
Sides ==
    [home |-> [name |-> "home_team_name", logo |-> "home_team_logo_url",
               select |-> "home_select", write |-> "home_write", then |-> "away_select"],
     away |-> [name |-> "away_team_name", logo |-> "away_team_logo_url",
               select |-> "away_select", write |-> "away_write", then |-> "match_select"]]

SetTeamId(cs, w, side, id) ==
    IF side = "home" THEN [cs EXCEPT ![w].pc = Sides[side].then, ![w].home_team_id = id]
    ELSE [cs EXCEPT ![w].pc = Sides[side].then, ![w].away_team_id = id]

(* get_or_create_team: "if not name: return None", else the SELECT *)
SelectTeam(w, side) ==
    /\ conns[w].pc = Sides[side].select
    /\ LET name == Get(conns[w].r, Sides[side].name, NULL) IN
       IF ~Truthy(name)
       THEN conns' = SetTeamId(conns, w, side, NoId)
       ELSE conns' = [conns EXCEPT ![w].pc = Sides[side].write,
                         ![w].result = Fetched(View(w).teams, TeamLookup(View(w), name))]
    /\ UNCHANGED <<leagues, teams, matches, txn>>
    /\ UNCHANGED <<now, call, ncalls, batch, after1, row, rec, doc, out>>

(* the statement get_or_create_team runs after its SELECT, if any *)
TeamWrites(w, side) ==
    LET c == conns[w] IN
    IF c.result = None THEN TRUE
    ELSE Truthy(Get(c.r, Sides[side].logo, NULL))
         /\ c.result[1].logo_url # Get(c.r, Sides[side].logo, NULL)

(* get_or_create_team: UPDATE teams SET logo_url, INSERT INTO teams, or neither *)
WriteTeam(w, side) ==
    /\ conns[w].pc = Sides[side].write
    /\ LET c == conns[w]
           name == Get(c.r, Sides[side].name, NULL)
           logo_url == Get(c.r, Sides[side].logo, NULL)
           st == View(w)
       IN  IF ~TeamWrites(w, side)
           THEN /\ conns' = SetTeamId(conns, w, side, c.result[1].id)
                /\ UNCHANGED <<leagues, teams, matches, txn>>
           ELSE /\ CanWrite(w)
                /\ IF c.result # None
                   THEN /\ Wrote(w, [st EXCEPT !.teams[c.result[1].id].logo_url = logo_url])
                        /\ conns' = SetTeamId(conns, w, side, c.result[1].id)
                        /\ UNCHANGED <<leagues, teams, matches>>
                   ELSE IF TeamInsertViolation(st, name)
                        THEN Failed(w)
                        ELSE /\ Wrote(w, [st EXCEPT !.teams = Append(@,
                                    [name |-> name, logo_url |-> logo_url])])
                             /\ conns' = SetTeamId(conns, w, side, Len(st.teams) + 1)
                             /\ UNCHANGED <<leagues, teams, matches>>
    /\ UNCHANGED <<now, call, ncalls, batch, after1, row, rec, doc, out>>

(* SELECT id FROM matches WHERE match_id = ?; existing = cursor.fetchone() *)
SelectMatchRow(w) ==
    /\ conns[w].pc = "match_select"
    /\ conns' = [conns EXCEPT ![w].pc = "match_write",
                    ![w].existing = SelectMatch(View(w), Get(conns[w].r, "match_id", NULL)) # {}]
    /\ UNCHANGED <<leagues, teams, matches, txn>>
    /\ UNCHANGED <<now, call, ncalls, batch, after1, row, rec, doc, out>>

(* "if existing:" the UPDATE, else the INSERT *)
WriteMatch(w) ==
    /\ conns[w].pc = "match_write"
    /\ CanWrite(w)
    /\ LET c == conns[w]
           match_id == Get(c.r, "match_id", NULL)
           cols == BoundColumns(c.r, c.league_id, c.home_team_id, c.away_team_id,
                                match_date_of(Get(c.r, "scheduled_datetime", NULL)))
           st == View(w)
       IN  IF c.existing
           THEN /\ Wrote(w, UpdateMatch(st, match_id, cols, now))
                /\ conns' = [conns EXCEPT ![w].pc = "commit"]
                /\ UNCHANGED <<leagues, teams, matches>>
           ELSE IF InsertMatchViolation(st, match_id)
                THEN Failed(w)
                ELSE /\ Wrote(w, InsertMatch(st, match_id, cols, now))
                     /\ conns' = [conns EXCEPT ![w].pc = "commit"]
                     /\ UNCHANGED <<leagues, teams, matches>>
    /\ UNCHANGED <<now, call, ncalls, batch, after1, row, rec, doc, out>>

(* conn.commit(); return True *)
Commit(w) ==
    /\ conns[w].pc = "commit"
    /\ txn.holder = w
    /\ leagues' = txn.st.leagues
    /\ teams' = txn.st.teams
    /\ matches' = txn.st.matches
    /\ txn' = [txn EXCEPT !.holder = 0, !.last = w, !.st = NoTxn.st]
    /\ conns' = [conns EXCEPT ![w].pc = "done", ![w].ret = "true"]
    /\ UNCHANGED <<now, call, ncalls, batch, after1, row, rec, doc, out>>

(* w stands before an INSERT or UPDATE *)
AtWrite(w) ==
    \/ conns[w].pc = "league_write" /\ LeagueWrites(w)
    \/ conns[w].pc = "home_write" /\ TeamWrites(w, "home")
    \/ conns[w].pc = "away_write" /\ TeamWrites(w, "away")
    \/ conns[w].pc = "match_write"

(* the busy timeout of the connection passes while the other writer holds the lock *)
BusyTimeout(w) ==
    /\ AtWrite(w)
    /\ ~CanWrite(w)
    /\ Failed(w)
    /\ UNCHANGED <<now, call, ncalls, batch, after1, row, rec, doc, out>>

(* the records of the two writers; the first writer's is of match_id 'm1' *)
WriterRecords == { r \in Records : r.match_id \in MatchIds /\ r.league_country # NULL }

(* the store the writers find: empty, or holding one committed upsert *)
StoresBefore ==
    { Store(<< >>, << >>, << >>) }
    \cup { insert_or_update_match(Store(<< >>, << >>, << >>), r, "none", 0).st :
             r \in { r \in WriterRecords :
                      r.match_id = "m1" /\ r.league_flag_class = "fl_155" } }

InitWriters ==
    /\ \E st \in StoresBefore :
         /\ leagues = st.leagues
         /\ teams = st.teams
         /\ matches = st.matches
         /\ txn = [NoTxn EXCEPT !.before = st]
    /\ now \in 0..MaxClock
    /\ call = NoCall
    /\ ncalls = 0
    /\ batch = << >>
    /\ after1 = Store(<< >>, << >>, << >>)
    /\ row = NoRow
    /\ rec = Pending
    /\ doc = NoDoc
    /\ out = Pending
    /\ conns \in { c \in [Writers -> { Connection(r) : r \in WriterRecords }] :
                     c[1].r.match_id = "m1" }

NextWriters ==
    \E w \in Writers :
        \/ SelectLeague(w)
        \/ WriteLeague(w)
        \/ \E side \in {"home", "away"} : SelectTeam(w, side) \/ WriteTeam(w, side)
        \/ SelectMatchRow(w)
        \/ WriteMatch(w)
        \/ Commit(w)
        \/ BusyTimeout(w)

SpecWriters == InitWriters /\ [][NextWriters]_vars

(***************************************************************************)
(* Properties of the persistence layer, checked under Spec.                *)
(***************************************************************************)
UpsertStep == ncalls' = ncalls + 1 /\ call'.op = "insert_or_update_match"

StoredIds(m) == { m[i].match_id : i \in 1..Len(m) }

RowOf(m, id) == CHOOSE i \in 1..Len(m) : m[i].match_id = id

(* C1: the matches table holds at most one row per match_id; an upsert of a
   stored match_id updates that row and adds none (it succeeds unless the
   store fails), a successful upsert of a match_id that is not stored adds
   exactly one row, and a failed one adds none. *)
C1_OneRowPerMatchId ==
    [][ /\ \A i, j \in 1..Len(matches') :
              matches'[i].match_id = matches'[j].match_id => i = j
        /\ UpsertStep =>
              LET id == call'.r.match_id IN
              IF id \in StoredIds(matches)
              THEN /\ Len(matches') = Len(matches)
                   /\ \A j \in 1..Len(matches) :
                         /\ matches'[j].match_id = matches[j].match_id
                         /\ matches[j].match_id # id => matches'[j] = matches[j]
                   /\ call'.fail = "none" =>
                         /\ call'.ret = "true"
                         /\ matches'[RowOf(matches, id)].updated_at = now
              ELSE IF call'.ret = "true"
                   THEN /\ Len(matches') = Len(matches) + 1
                        /\ SubSeq(matches', 1, Len(matches)) = matches
                        /\ matches'[Len(matches')].match_id = id
                   ELSE matches' = matches ]_vars

(* two rows are stored and the third call has just upserted the match_id of the first *)
C1_Witness ==
    /\ ncalls = 3
    /\ Len(matches) = 2
    /\ call.ret = "true"
    /\ call.r.match_id = matches[1].match_id

(* C3: no two league rows share (name, country), the absent country
   included, and no two team rows share a name. *)
C3_NoDuplicateEntities ==
    /\ \A i, j \in 1..Len(leagues) :
          (leagues[i].name = leagues[j].name /\ leagues[i].country = leagues[j].country)
              => i = j
    /\ \A i, j \in 1..Len(teams) : teams[i].name = teams[j].name => i = j

UpdateStep ==
    /\ UpsertStep
    /\ call'.ret = "true"
    /\ call'.r.match_id \in StoredIds(matches)

PassThroughColumns ==
    {"match_url", "match_time", "scheduled_datetime", "home_score", "away_score",
     "match_status", "match_stage", "is_live", "is_scheduled", "is_finished",
     "is_canceled", "is_postponed", "has_tv_icon", "has_audio_icon", "has_info_icon",
     "half_time", "current_minute"}

(* the stored row rw carries the state of record r *)
RefreshedFrom(rw, r, lgs, tms) ==
    /\ \A k \in PassThroughColumns : rw[k] = r[k]
    /\ rw.home_red_cards = Some(0) /\ rw.away_red_cards = Some(0)
    /\ rw.match_date # NULL => r.scheduled_datetime \in IsoInstants
    /\ IF Truthy(r.league_name)
       THEN /\ rw.league_id \in 1..Len(lgs)
            /\ lgs[rw.league_id].name = r.league_name
            /\ lgs[rw.league_id].country = r.league_country
       ELSE rw.league_id = NoId
    /\ IF Truthy(r.home_team_name)
       THEN rw.home_team_id \in 1..Len(tms) /\ tms[rw.home_team_id].name = r.home_team_name
       ELSE rw.home_team_id = NoId
    /\ IF Truthy(r.away_team_name)
       THEN rw.away_team_id \in 1..Len(tms) /\ tms[rw.away_team_id].name = r.away_team_name
       ELSE rw.away_team_id = NoId

(* C8 as stated: a successful upsert of a stored match_id leaves every
   mutable column equal to the record's value, the row count unchanged and
   updated_at later than its previous value. *)
C8_UpdatedAtAdvanced ==
    [][ UpdateStep =>
          LET i == RowOf(matches, call'.r.match_id) IN
          /\ RefreshedFrom(matches'[i], call'.r, leagues', teams')
          /\ Len(matches') = Len(matches)
          /\ matches'[i].updated_at > matches[i].updated_at ]_vars

(* C8 amended: a successful upsert of a stored match_id leaves every mutable
   column equal to the record's value (null where the record has null), the
   row count unchanged, and updated_at set to the store's current timestamp:
   later than the previous value exactly when the clock has moved on since
   the row was last written. *)
C8_UpdateRefreshesRow ==
    [][ UpdateStep =>
          LET i == RowOf(matches, call'.r.match_id) IN
          /\ RefreshedFrom(matches'[i], call'.r, leagues', teams')
          /\ Len(matches') = Len(matches)
          /\ matches'[i].updated_at = now
          /\ (matches'[i].updated_at > matches[i].updated_at) <=> (now > matches[i].updated_at)
      ]_vars

(* the second call updated the row the first one inserted, within the same
   second, and replaced its league reference by null *)
C8_Witness ==
    /\ ncalls = 2
    /\ now = 0
    /\ call.ret = "true"
    /\ Len(matches) = 1
    /\ matches[1].match_id = call.r.match_id
    /\ Len(leagues) = 1
    /\ matches[1].league_id = NoId

(* C9: a call of insert_or_update_match that fails leaves the three tables
   as they were: none of the record's writes remains and the rows committed
   by earlier records are unchanged. *)
C9_FailedUpsertLeavesNoWrite ==
    [][ (UpsertStep /\ call'.ret # "true") => UNCHANGED <<leagues, teams, matches>> ]_vars

(* a record that names a team not yet stored failed at its commit, after an earlier record was committed *)
C9_Witness ==
    /\ call.ret = "false"
    /\ call.fail = "commit"
    /\ Len(matches) >= 1
    /\ Truthy(call.r.away_team_name)
    /\ \A i \in 1..Len(teams) : teams[i].name # call.r.away_team_name

(* C25: the position of a match row in the table (its primary key) and its
   scraped_at are set by the insert and kept by every later upsert; a
   successful upsert writes the current timestamp to updated_at of its row,
   a failed one leaves every updated_at as it was *)
C25_BookkeepingFrame ==
    [][ UpsertStep =>
          /\ Len(matches') >= Len(matches)
          /\ \A j \in 1..Len(matches) :
                /\ matches'[j].match_id = matches[j].match_id
                /\ matches'[j].scraped_at = matches[j].scraped_at
                /\ (call'.ret # "true" \/ matches[j].match_id # call'.r.match_id)
                      => matches'[j].updated_at = matches[j].updated_at
          /\ call'.ret # "true" => Len(matches') = Len(matches)
          /\ call'.ret = "true" =>
                LET i == RowOf(matches', call'.r.match_id) IN
                /\ matches'[i].updated_at = now
                /\ call'.r.match_id \notin StoredIds(matches) =>
                      (i = Len(matches) + 1 /\ matches'[i].scraped_at = now)
      ]_vars

(* a row inserted at one second and updated at a later one *)
C25_Witness ==
    /\ call.op = "insert_or_update_match"
    /\ call.ret = "true"
    /\ \E i \in 1..Len(matches) :
          /\ matches[i].match_id = call.r.match_id
          /\ matches[i].scraped_at < matches[i].updated_at
          /\ matches[i].updated_at = now

(* C26: a null or empty league or team name resolves to no id and creates or
   changes no league or team row; the upsert succeeds unless the store fails,
   and the stored match row has the reference null, whatever it held before *)
C26_AbsentNameGivesNullReference ==
    [][ UpsertStep =>
          LET r == call'.r IN
          /\ ~Truthy(r.league_name) => leagues' = leagues
          /\ \A j \in 1..Len(teams') :
                (j > Len(teams) \/ teams'[j] # teams[j]) =>
                   \E n \in {r.home_team_name, r.away_team_name} :
                      Truthy(n) /\ teams'[j].name = n
          /\ ( /\ call'.fail = "none"
               /\ r.match_id # NULL
               /\ ~Truthy(r.league_name) \/ ~Truthy(r.home_team_name)
                                          \/ ~Truthy(r.away_team_name) )
                => call'.ret = "true"
          /\ call'.ret = "true" =>
                LET rw == matches'[RowOf(matches', r.match_id)] IN
                /\ ~Truthy(r.league_name) => rw.league_id = NoId
                /\ ~Truthy(r.home_team_name) => rw.home_team_id = NoId
                /\ ~Truthy(r.away_team_name) => rw.away_team_id = NoId
      ]_vars

(* the update of a row by a record without league name and away team name,
   after a call that stored it with a league *)
C26_Witness ==
    /\ ncalls = 2
    /\ call.ret = "true"
    /\ call.r.league_name = "" /\ call.r.away_team_name = ""
    /\ Len(matches) = 1
    /\ Len(leagues) = 1
    /\ matches[1].league_id = NoId
    /\ matches[1].away_team_id = NoId

(* C12: no failure escapes the persistence layer: whatever the record and
   wherever the store fails, insert_or_update_match returns true or false. *)
C12_UpsertNeverRaises ==
    call.op = "insert_or_update_match" => call.ret \in {"true", "false"}

(* the date component of an ISO instant <date>T<time> *)
DateComponent(instant) ==
    CASE instant = "2026-11-06T15:30:00" -> "2026-11-06"
      [] instant = "2026-11-07T09:00:00" -> "2026-11-07"

(* C15: every stored match row with a match_date has it equal to the date
   component of its scheduled_datetime, and a row whose scheduled_datetime
   holds no parseable instant has match_date null. *)
C15_MatchDateFollowsInstant ==
    \A i \in 1..Len(matches) :
        /\ matches[i].match_date # NULL =>
              /\ matches[i].scheduled_datetime \in IsoInstants
              /\ matches[i].match_date = DateComponent(matches[i].scheduled_datetime)
        /\ matches[i].scheduled_datetime \notin IsoInstants => matches[i].match_date = NULL

(* a row inserted with an instant (the record with team logo b.png) and then
   updated by a record whose scheduled_datetime is the raw text 45' *)
C15_Witness ==
    /\ ncalls = 2
    /\ call.op = "insert_or_update_match" /\ call.ret = "true"
    /\ call.r.scheduled_datetime = "45'"
    /\ \E t \in 1..Len(teams) : teams[t].logo_url = "b.png"
    /\ Len(matches) = 1
    /\ matches[1].scheduled_datetime = "45'"
    /\ matches[1].match_date = NULL

(* the league rows, or team rows, of before are all still stored *)
RowsKept(before, after, key) ==
    /\ Len(after) >= Len(before)
    /\ \A i \in 1..Len(before) : \A k \in key : after[i][k] = before[i][k]

C30_ReferencesExist ==
    \A i \in 1..Len(matches) :
       /\ matches[i].league_id # NoId => matches[i].league_id \in 1..Len(leagues)
       /\ matches[i].home_team_id # NoId => matches[i].home_team_id \in 1..Len(teams)
       /\ matches[i].away_team_id # NoId => matches[i].away_team_id \in 1..Len(teams)

(* a failed upsert of a record that names a league not stored, after a match
   with a league and two teams was stored *)
C30_Witness ==
    /\ call.op = "insert_or_update_match"
    /\ call.ret = "false"
    /\ Truthy(call.r.league_name)
    /\ \A j \in 1..Len(leagues) : leagues[j].name # call.r.league_name
    /\ \E i \in 1..Len(matches) :
          /\ matches[i].league_id # NoId
          /\ matches[i].home_team_id # NoId
          /\ matches[i].away_team_id # NoId

(***************************************************************************)
(* Properties of the resolvers, checked under SpecResolve.                 *)
(***************************************************************************)
(* what one resolve with arguments a may do to the rows of a table: the rows
   stay, only logo_url of a row changes and only to a non-empty a.logo_url *)
OnlyLogoChanges(before, after, a, columns) ==
    /\ Len(after) >= Len(before)
    /\ \A j \in 1..Len(before) :
          /\ \A c \in columns : after[j][c] = before[j][c]
          /\ after[j].logo_url # before[j].logo_url =>
                (Truthy(a.logo_url) /\ after[j].logo_url = a.logo_url)

(* every row of the key of a holds the last non-empty logo_url supplied: the
   one of a when that is non-empty, else the one it held or was created with *)
LastLogoStored(before, after, a, columns) ==
    \A j \in 1..Len(after) :
       (\A c \in columns : after[j][c] = a[c]) =>
          IF Truthy(a.logo_url) THEN after[j].logo_url = a.logo_url
          ELSE IF j <= Len(before) THEN after[j].logo_url = before[j].logo_url
               ELSE after[j].logo_url = a.logo_url

(* C27: a resolve changes of the stored rows only logo_url, and only to a
   non-empty supplied value; after it every row of the resolved key holds the
   last non-empty logo_url supplied for the key, or the one it was created
   with; name, country and flag_class stay *)
C27_LogoUpdateRule ==
    [][ /\ (call'.op = "get_or_create_league" /\ Truthy(call'.r.name)) =>
              /\ OnlyLogoChanges(leagues, leagues', call'.r, {"name", "country", "flag_class"})
              /\ LastLogoStored(leagues, leagues', call'.r, {"name", "country"})
        /\ (call'.op = "get_or_create_team" /\ Truthy(call'.r.name)) =>
              /\ OnlyLogoChanges(teams, teams', call'.r, {"name"})
              /\ LastLogoStored(teams, teams', call'.r, {"name"})
      ]_vars

(***************************************************************************)
(* Properties of the batch upsert, checked under SpecBatch.                *)
(***************************************************************************)
NoStorageFailure(fails) == \A i \in 1..Len(fails) : fails[i] = "none"

ExceptUpdatedAt(rw) == [k \in (DOMAIN rw) \ {"updated_at"} |-> rw[k]]

(* C2: when the same batch has been saved twice, the second run left the
   number of rows of matches, leagues and teams unchanged and every field of
   every match row, updated_at excepted, as the first run left it. *)
C2_SecondRunChangesNothing ==
    ( /\ call.op = "save_matches_to_database" /\ call.run = 2
      /\ NoStorageFailure(after1.fail) /\ NoStorageFailure(call.fail) )
    => /\ Len(matches) = Len(after1.matches)
       /\ Len(leagues) = Len(after1.leagues)
       /\ Len(teams) = Len(after1.teams)
       /\ \A i \in 1..Len(matches) :
             ExceptUpdatedAt(matches[i]) = ExceptUpdatedAt(after1.matches[i])

(* C10: save_matches_to_database attempts every record of the batch,
   whatever happened to the earlier ones, and returns the number of
   successes; successes plus failed identifiers make the batch length. *)
C10_BatchContinues ==
    call.op = "save_matches_to_database"
    => /\ call.ret = "returned"
       /\ call.attempted = Len(call.r)
       /\ call.saved_count + Len(call.failed_matches) = Len(call.r)

(***************************************************************************)
(* Properties of the record builder, checked under SpecRow.                *)
(***************************************************************************)
Built == rec.outcome = "record"

StatusFlags(r) ==
    [live |-> r.is_live, scheduled |-> r.is_scheduled, finished |-> r.is_finished,
     canceled |-> r.is_canceled, postponed |-> r.is_postponed]

(* C4: in every record exactly one of is_live, is_scheduled, is_finished,
   is_canceled, is_postponed is true, and it is the one match_status names. *)
C4_ExactlyOneStatusFlag ==
    Built =>
      LET flags == StatusFlags(rec) IN
      /\ Cardinality({ k \in DOMAIN flags : flags[k] }) = 1
      /\ rec.match_status \in DOMAIN flags
      /\ flags[rec.match_status]

HasCancelToken(text) ==
    text # NoText /\ (Contains(text, "Cancelado") \/ Contains(text, "Canceled"))

(* C5: a record whose stage text contains 'Cancelado' or 'Canceled' has
   match_status 'canceled', whatever marker classes the row carries and
   whatever else the stage text contains. *)
C5_CancelTokenWins ==
    (Built /\ HasCancelToken(rec.match_stage)) => rec.match_status = "canceled"

(* a live row whose stage text holds a postponement token before the cancellation token *)
C5_Witness ==
    /\ Built
    /\ rec.is_live
    /\ Len(rec.match_stage) = 2
    /\ rec.match_stage[1] \in {"Adiado", "Postponed"}
    /\ rec.match_stage[2] \in {"Cancelado", "Canceled"}
    /\ rec.match_status = "canceled"

(* the cell holds a number: decimal digits after an optional minus sign *)
IsNumber(cell) ==
    /\ cell # NoText
    /\ LET ds == IF cell # << >> /\ cell[1] = "-" THEN Tail(cell) ELSE cell
       IN  ds # << >> /\ \A i \in 1..Len(ds) : ds[i] \in DigitChars

(* the number a run of digits denotes *)
Denotes(ds) ==
    LET v[k \in 0..Len(ds)] == IF k = 0 THEN 0 ELSE 10 * v[k - 1] + DigitValue(ds[k])
    IN  v[Len(ds)]

NumberValue(cell) ==
    IF cell[1] = "-" THEN 0 - Denotes(Tail(cell)) ELSE Denotes(cell)

ScoreAsStated(cell, score) ==
    /\ (cell \in {NoText, << >>, <<"-">>}) => score = None
    /\ ~IsNumber(cell) => score = None
    /\ IsNumber(cell) => score = Some(NumberValue(cell))
    /\ cell = <<"0">> => (score = Some(0) /\ score # None)

(* C6: each side's score is null when the score cell is missing, empty, a
   single dash or no number, and the integer the cell holds otherwise (0 for
   '0'); no score cell makes the row yield no record. *)
C6_ScoreNullability ==
    rec # Pending =>
      /\ (~row.raises /\ match_id_of(row.id) # << >>) => Built
      /\ Built => /\ ScoreAsStated(row.score_home, rec.home_score)
                  /\ ScoreAsStated(row.score_away, rec.away_score)

(* a dash on one side and a text that is no number on the other *)
C6_Witness ==
    /\ Built
    /\ row.score_home = <<"-">>
    /\ row.score_away = <<"1", "x">>
    /\ rec.home_score = None /\ rec.away_score = None

(* the texts that write hour h: two digits, or one digit below ten *)
HourForms(h) ==
    { <<DigitText[(h \div 10) + 1], DigitText[(h % 10) + 1]>> }
    \cup (IF h < 10 THEN { <<DigitText[h + 1]>> } ELSE {})

(* the hour and minute a display time of the shape HH:MM names *)
ClockReadings(t) ==
    IF t = NoText \/ Len(t) \notin 4..5 THEN {}
    ELSE IF t[Len(t) - 2] # ":" THEN {}
    ELSE { h \in 0..23 : SubSeq(t, 1, Len(t) - 3) \in HourForms(h) }
         \X { m \in 0..59 :
                SubSeq(t, Len(t) - 1, Len(t))
                  = <<DigitText[(m \div 10) + 1], DigitText[(m % 10) + 1]>> }

(* today's date at that hour and minute, as isoformat() writes it *)
IsoAt(hm) ==
    Today \o "T" \o DigitText[(hm[1] \div 10) + 1] \o DigitText[(hm[1] % 10) + 1]
          \o ":" \o DigitText[(hm[2] \div 10) + 1] \o DigitText[(hm[2] % 10) + 1] \o ":00"

RawTime == IF row.time = NoText THEN NULL ELSE Text(row.time)

(* C18 as stated: scheduled_datetime is the instant for a display time HH:MM
   with a valid hour and minute, and holds no value for every other display
   time, while match_time keeps the raw text *)
C18_InstantOrNoValue ==
    Built =>
      /\ rec.match_time = RawTime
      /\ IF ClockReadings(row.time) # {}
         THEN \E hm \in ClockReadings(row.time) : rec.scheduled_datetime = IsoAt(hm)
         ELSE rec.scheduled_datetime = NULL

(* C18 amended: scheduled_datetime is the instant for a display time HH:MM
   with a valid hour and minute, no value for a missing or empty display
   time, and the raw display text itself for every other display time;
   match_time keeps the raw text *)
C18_InstantOrRawText ==
    Built =>
      /\ rec.match_time = RawTime
      /\ IF ClockReadings(row.time) # {}
         THEN \E hm \in ClockReadings(row.time) : rec.scheduled_datetime = IsoAt(hm)
         ELSE IF row.time = NoText \/ row.time = << >>
              THEN rec.scheduled_datetime = NULL
              ELSE rec.scheduled_datetime = RawTime

(* a one-digit hour read as an instant, or an out-of-range time kept as text *)
C18_Witness ==
    /\ Built
    /\ \/ row.time = <<"9", ":", "0", "2">> /\ rec.scheduled_datetime = "2026-11-06T09:02:00"
       \/ row.time = <<"2", "9", ":", "9", "9">> /\ rec.scheduled_datetime = "29:99"

(* the id attribute with only a leading prefix taken off *)
LeadingPrefixRemoved(id) ==
    IF id # << >> /\ id[1] = IdPrefix THEN Tail(id) ELSE id

(* C19: a record's match_id is the id attribute without its leading prefix
   and is not empty, a missing, empty or prefix-only id yields no record, and
   different id attributes never yield the same match_id *)
C19_OnlyLeadingPrefixRemoved ==
    (rec # Pending /\ ~row.raises) =>
      /\ Built => /\ rec.match_id # << >>
                  /\ rec.match_id = LeadingPrefixRemoved(row.id)
      /\ row.id \in {NoText, << >>, <<IdPrefix>>} => ~Built
      /\ \A other \in IdAttrs \ {NoText, row.id} :
            Built => match_id_of(other) # rec.match_id

HasPostponeToken(text) ==
    text # NoText /\ (Contains(text, "Adiado") \/ Contains(text, "Postponed"))

(* the markers of the row, in the order of precedence, with their status *)
MarkerOrder ==
    << <<{"event__match--live", "event__match--twoLine"}, "live">>,
       <<{"event__match--scheduled"}, "scheduled">>,
       <<{"event__match--finished", "event__match--last"}, "finished">> >>

(* C24: without a cancellation or postponement token in the stage text,
   match_status is that of the first marker kind the row carries, in the
   order live, scheduled, finished, and 'unknown' when it carries none *)
C24_StatusPrecedence ==
    (Built /\ ~HasCancelToken(rec.match_stage) /\ ~HasPostponeToken(rec.match_stage)) =>
      LET carried == { k \in 1..3 : MarkerOrder[k][1] \cap row.classes # {} }
      IN  IF carried = {} THEN rec.match_status = "unknown"
          ELSE rec.match_status = MarkerOrder[Min(carried)][2]

(* a row with the scheduled, the finished and a live marker *)
C24_Witness ==
    /\ Built
    /\ row.classes = {"event__match--twoLine", "event__match--scheduled",
                      "event__match--finished"}
    /\ rec.match_stage = <<"Fim">>
    /\ rec.match_status = "live"

(* the hrefs of the rows that begin with a slash *)
StartsWithSlash(href) == href \in {"/jogo/x/"}

(* the absolute URL of a relative href under the site origin *)
UnderSiteOrigin(href) ==
    IF StartsWithSlash(href) THEN SiteOrigin \o href ELSE SiteOrigin \o "/" \o href

(* C23: match_url is null for a row with no link anchor or an empty href, the
   href itself when that is absolute, and otherwise the well-formed absolute
   URL of the relative href under the site origin *)
C23_UrlNullOrAbsolute ==
    Built =>
      rec.match_url = (IF row.href = NULL \/ row.href = "" THEN NULL
                       ELSE IF StartsWithHttp(row.href) THEN row.href
                       ELSE UnderSiteOrigin(row.href))

(***************************************************************************)
(* Properties of the tree locator, checked under SpecDoc.                  *)
(***************************************************************************)
Returned == out.outcome = "returned"

IsRow(i) == doc.nodes[i].kind = "row"

(* the row lies inside a target-sport section *)
InSection(i) ==
    \E a \in AncestorsOrSelf(doc.nodes, i) : a # 0 /\ doc.nodes[a].kind = "section"

RaisingRows == { i \in 1..Len(doc.nodes) : IsRow(i) /\ doc.nodes[i].raises }

UsableRows ==
    { i \in 1..Len(doc.nodes) : IsRow(i) /\ doc.nodes[i].id # << >> /\ i \notin RaisingRows }

SectionRows == { i \in 1..Len(doc.nodes) : IsRow(i) /\ InSection(i) }

(* the match_ids of the returned records, in the order returned *)
ReturnedIds == [k \in 1..Len(out.all_matches) |-> out.all_matches[k].match_id]

(* the id a row's record carries *)
RecordIdOf(i) == <<RowNames[i]>>

(* C7: for a document with no match row inside a target-sport section, the
   returned list holds a record for each match row of the document that has
   a usable id. *)
C7_FallbackReturnsFlatRows ==
    (Returned /\ doc.readable /\ SectionRows = {}) =>
      \A i \in UsableRows : \E k \in 1..Len(out.all_matches) : ReturnedIds[k] = RecordIdOf(i)

(* an empty target-sport section, and rows outside it of which one has no id *)
C7_Witness ==
    /\ Returned
    /\ doc.readable
    /\ \E i \in 1..Len(doc.nodes) : doc.nodes[i].kind = "section"
    /\ SectionRows = {}
    /\ Cardinality(UsableRows) = 2
    /\ \E i \in 1..Len(doc.nodes) : IsRow(i) /\ i \notin UsableRows
    /\ Len(out.all_matches) = 2

(* the preceding siblings of element i that are a league header or hold one *)
HeaderSiblings(i) ==
    { j \in 1..(i - 1) :
        /\ doc.nodes[j].parent = doc.nodes[i].parent
        /\ \/ doc.nodes[j].kind = "header"
           \/ find(doc.nodes, j, "header") # None }

(* the league fields of the header that sibling j is or holds *)
HeaderFieldsOf(j) ==
    IF doc.nodes[j].kind = "header" THEN doc.nodes[j].league
    ELSE doc.nodes[find(doc.nodes, j, "header")[1]].league

LeagueFieldsOf(record) ==
    [league_name |-> record.league_name,
     league_country |-> record.league_country,
     league_flag_class |-> record.league_flag_class]

(* C16: in the primary pass the record of a row that has a preceding sibling
   which is or holds a league header carries the league fields of the nearest
   such sibling *)
C16_NearestSiblingHeader ==
    (Returned /\ doc.readable /\ ~out.fallback) =>
      \A i \in SectionRows : \A k \in 1..Len(out.all_matches) :
         (ReturnedIds[k] = RecordIdOf(i) /\ HeaderSiblings(i) # {}) =>
            \E j \in HeaderSiblings(i) :
               /\ \A h \in HeaderSiblings(i) : h <= j
               /\ LeagueFieldsOf(out.all_matches[k]) = HeaderFieldsOf(j)

(* C20: the direct search runs exactly when no match row lies inside a
   target-sport section, and when some row does, no row outside such a
   section contributes a record *)
C20_FallbackIffNoSectionRows ==
    (Returned /\ doc.readable) =>
      /\ out.fallback <=> (SectionRows = {})
      /\ SectionRows # {} =>
            \A i \in 1..Len(doc.nodes) : \A k \in 1..Len(out.all_matches) :
               (IsRow(i) /\ ~InSection(i)) => ReturnedIds[k] # RecordIdOf(i)

(* the preceding siblings of element i that hold a league header below them *)
HoldingSiblings(i) ==
    { j \in 1..(i - 1) :
        doc.nodes[j].parent = doc.nodes[i].parent /\ find(doc.nodes, j, "header") # None }

(* the ancestors of element i, nearest first, the soup object included *)
RECURSIVE AncestorChain(_)
AncestorChain(i) ==
    IF i = 0 THEN << >> ELSE <<doc.nodes[i].parent>> \o AncestorChain(doc.nodes[i].parent)

(* the first of the nearest n ancestors of row i that holds a header, as a
   set: empty when none of them does *)
FirstHoldingAncestor(i, n) ==
    { k \in 1..Min({n, Len(AncestorChain(i))}) :
        /\ find(doc.nodes, AncestorChain(i)[k], "header") # None
        /\ \A m \in 1..(k - 1) : find(doc.nodes, AncestorChain(i)[m], "header") = None }

(* C21: in the primary pass a league taken from a preceding sibling, its name
   missing or not, is kept; with no such sibling the league is that of the
   first header below the nearest of at most 5 ancestors that holds one *)
C21_AncestorWalkOnlyWithoutSibling ==
    (Returned /\ doc.readable /\ ~out.fallback) =>
      \A i \in SectionRows : \A k \in 1..Len(out.all_matches) :
         ReturnedIds[k] = RecordIdOf(i) =>
            IF HoldingSiblings(i) # {}
            THEN \E j \in HoldingSiblings(i) :
                   /\ \A h \in HoldingSiblings(i) : h <= j
                   /\ LeagueFieldsOf(out.all_matches[k]) = HeaderFieldsOf(j)
            ELSE \A a \in FirstHoldingAncestor(i, PrimaryDepth) :
                   LeagueFieldsOf(out.all_matches[k])
                     = doc.nodes[find(doc.nodes, AncestorChain(i)[a], "header")[1]].league

(* the one match row of a document of SpecLeague *)
TheRow == Len(doc.nodes)

(* a league header is found for row i: in the direct search below one of its
   nearest 10 ancestors, in the primary pass below a preceding sibling or
   below one of its nearest 5 ancestors *)
HeaderFound(i) ==
    IF out.fallback THEN FirstHoldingAncestor(i, FallbackDepth) # {}
    ELSE HoldingSiblings(i) # {} \/ FirstHoldingAncestor(i, PrimaryDepth) # {}

(* C22: a match row with a usable id for which no league header is found
   still yields a record, with league_name, league_country and
   league_flag_class all null *)
C22_UnresolvedLeagueKeepsRow ==
    (Returned /\ doc.readable /\ ~HeaderFound(TheRow)) =>
      /\ \E k \in 1..Len(out.all_matches) : ReturnedIds[k] = RecordIdOf(TheRow)
      /\ \A k \in 1..Len(out.all_matches) :
            ReturnedIds[k] = RecordIdOf(TheRow) => LeagueFieldsOf(out.all_matches[k]) = NoLeague

(* a header that lies beyond the ancestors examined, in the primary pass and
   in the direct search *)
C22_Witness ==
    /\ Returned
    /\ doc.readable
    /\ ~HeaderFound(TheRow)
    /\ \E j \in 1..Len(doc.nodes) : doc.nodes[j].kind = "header"
    /\ Len(out.all_matches) = 1
    /\ LeagueFieldsOf(out.all_matches[1]) = NoLeague

(* the rows the extraction goes over that yield a record: in the direct
   search those of the document, else those inside a target-sport section *)
EnumeratedRows == IF out.fallback THEN UsableRows ELSE UsableRows \cap SectionRows

(* C29: the returned list holds exactly one record for each such row, in the
   document order of the rows *)
C29_OneRecordPerRow ==
    (Returned /\ doc.readable) =>
      ReturnedIds = [k \in 1..Cardinality(EnumeratedRows) |->
                       RecordIdOf(InOrder(EnumeratedRows)[k])]

(* the document with the failures of its rows taken away *)
Healed(document) ==
    [document EXCEPT !.nodes = [i \in 1..Len(document.nodes) |->
                                   [document.nodes[i] EXCEPT !.raises = FALSE]]]

(* C13: a row whose building raises yields no record, and every record the
   document yields without that failure, for another row, is still returned *)
C13_RowFailureIsolated ==
    (Returned /\ doc.readable) =>
      /\ \A i \in RaisingRows : \A k \in 1..Len(out.all_matches) :
            ReturnedIds[k] # RecordIdOf(i)
      /\ \E res \in {extract_all_matches_from_html(Healed(doc))} :
            \A k \in 1..Len(res.all_matches) :
               \/ \E i \in RaisingRows : res.all_matches[k].match_id = RecordIdOf(i)
               \/ \E j \in 1..Len(out.all_matches) : out.all_matches[j] = res.all_matches[k]

(* a section whose first row fails and whose second row is returned *)
C13_Witness ==
    /\ Returned
    /\ doc.readable
    /\ \E i \in RaisingRows, j \in UsableRows :
          /\ i < j
          /\ {i, j} \subseteq SectionRows
          /\ \E k \in 1..Len(out.all_matches) : ReturnedIds[k] = RecordIdOf(j)

(***************************************************************************)
(* Properties of the program run (SpecMain).                               *)
(***************************************************************************)
Ran == call.op = "main"

(* C14: when the document cannot be read the extraction returns the empty
   list, nothing is raised, no upsert is attempted and the tables stay as
   they were *)
C14_UnreadableInputWritesNothing ==
    (Ran /\ ~doc.readable) =>
      /\ out.outcome = "returned"
      /\ out.all_matches = << >>
      /\ call.ret = "returned"
      /\ call.attempted = 0
      /\ Store(leagues, teams, matches) = call.before

(* an unreadable document, run against tables that hold a match *)
C14_Witness ==
    /\ Ran
    /\ ~doc.readable
    /\ Len(matches) = 1
    /\ out.outcome = "returned"

(***************************************************************************)
(* Properties of concurrent writers, checked under SpecWriters.            *)
(***************************************************************************)
BothDone == \A w \in Writers : conns[w].pc = "done"

(* C11: when two writers have upserted the same match_id on connections of
   their own, both upserts succeeded, exactly one row for the match_id is
   stored and it holds the values of the writer that committed last. *)
C11_BothWritersSucceed ==
    (BothDone /\ \A w \in Writers : conns[w].r.match_id = "m1") =>
      /\ \A w \in Writers : conns[w].ret = "true"
      /\ Cardinality({ i \in 1..Len(matches) : matches[i].match_id = "m1" }) = 1
      /\ txn.last \in Writers
      /\ \A k \in PassThroughColumns :
            matches[RowOf(matches, "m1")][k] = conns[txn.last].r[k]

(* the team names of a record *)
TeamNamesOf(r) == { n \in {r.home_team_name, r.away_team_name} : Truthy(n) }

(* the writers' records have different match_ids and name a team, or a
   league, that was not stored when they began *)
ShareNewEntity ==
    /\ conns[1].r.match_id # conns[2].r.match_id
    /\ \/ \E n \in TeamNamesOf(conns[1].r) \cap TeamNamesOf(conns[2].r) :
             TeamLookup(txn.before, n) = {}
       \/ /\ Truthy(conns[1].r.league_name)
          /\ conns[1].r.league_name = conns[2].r.league_name
          /\ conns[1].r.league_country = conns[2].r.league_country
          /\ LeagueLookup(txn.before, conns[1].r.league_name, conns[1].r.league_country) = {}

(* both calls returned True, both match rows are stored, and they refer to
   one row for each team and league they both name *)
BothStoredSharing ==
    /\ \A w \in Writers : conns[w].ret = "true"
    /\ \A w \in Writers : conns[w].r.match_id \in StoredIds(matches)
    /\ \A i, j \in 1..Len(teams) : teams[i].name = teams[j].name => i = j
    /\ \A i, j \in 1..Len(leagues) :
          (leagues[i].name = leagues[j].name /\ leagues[i].country = leagues[j].country)
             => i = j

(* C28: two writers whose records have different match_ids and name the same
   team or league, not yet stored, both succeed under every interleaving of
   their statements, and both match rows refer to one single row of it *)
C28_SharedEntityBothSucceed == (ShareNewEntity /\ BothDone) => BothStoredSharing

====
